---- MODULE Spec2Model ----
(***************************************************************************)
(* metre: the partial-configuration merge and validation engine.           *)
(*                                                                         *)
(* #[derive(Config)] (metre-macros/src/config.rs) generates, for a struct, *)
(* its deep-partial mirror and the PartialConfig / Config impls.  The      *)
(* generated code is a function of the struct's field table, so the model  *)
(* keeps a table of shapes (Shapes) and every generated method is an       *)
(* operator taking the shape's name.  ConfigLoader (metre/src/lib.rs) is   *)
(* the state machine: new, then partial / defaults / code / env in any     *)
(* order, then finish.  MergeSpec applies one merge to every pair of       *)
(* mirrors.                                                                *)
(*                                                                         *)
(* Option<T> is a sequence of length 0 (None) or 1 (Some(v)).              *)
(* A dotted field path is a string, built as format!("{}.{}", a, b) does.  *)
(***************************************************************************)
EXTENDS Integers, Sequences, FiniteSets, TLC

\* ------------------------------------------------------------------ bounds
\* Leaf values range over 1..MaxVal.
MaxVal == 2
\* Longest list an append_vec field may accumulate (the guard of the add actions).
MaxListLen == 2

Vals == 1..MaxVal

\* ------------------------------------------------------------ Option<T>
None == <<>>
Some(v) == <<v>>
IsNone(o) == Len(o) = 0
IsSome(o) == Len(o) = 1
Unwrap(o) == o[1]

\* ------------------------------------------------------------ field table
\* FieldArgs (attrs.rs) plus what config() derives from the field's type:
\* is_option = ty_is_option(ty), ty = the leaf's (un-optioned) type.
Leaf(ident) ==
  [ident |-> ident, nested |-> FALSE, is_option |-> FALSE, ty |-> "u16",
   shape |-> "", default |-> None, merge |-> "", rename |-> None,
   skip_env |-> FALSE, env |-> None, flatten |-> FALSE, parse_env |-> ""]

OptionLeaf(ident) == [Leaf(ident) EXCEPT !.is_option = TRUE]

VecLeaf(ident) == [Leaf(ident) EXCEPT !.ty = "vec"]

NestedField(ident, shape) == [Leaf(ident) EXCEPT !.nested = TRUE, !.ty = "config", !.shape = shape]

OptionNested(ident, shape) == [NestedField(ident, shape) EXCEPT !.is_option = TRUE]

WithDefault(f, expr) == [f EXCEPT !.default = Some(expr)]

WithMerge(f, fn) == [f EXCEPT !.merge = fn]

WithRename(f, name) == [f EXCEPT !.rename = Some(name)]

SkipEnv(f) == [f EXCEPT !.skip_env = TRUE]

WithEnv(f, fmt) == [f EXCEPT !.env = Some(fmt)]

Flatten(f) == [f EXCEPT !.flatten = TRUE]

WithParseEnv(f, fn) == [f EXCEPT !.parse_env = fn]

\* ContainerAttrs (attrs.rs)
Container == [env_prefix |-> None, skip_env |-> FALSE, allow_unknown_fields |-> FALSE]

WithEnvPrefix(fmt) == [Container EXCEPT !.env_prefix = Some(fmt)]

SkipEnvContainer == [Container EXCEPT !.skip_env = TRUE]

AllowUnknownFields == [Container EXCEPT !.allow_unknown_fields = TRUE]

\* The structs deriving Config.  Conf, Nested, App, Opt and Lists follow
\* tests.rs; Strict, Pair (inside Outer) and Outer (inside Deep) carry a
\* fallible custom merge function at nesting depth 0, 1 and 2; OptDef has two
\* optional nested siblings, one of them with a declared default inside;
\* every required leaf of Presets declares a default (tests.rs,
\* should_respect_defaults_for_nested_configs), its append_vec list too;
\* Ledger has an append_vec list declared before a fallible merge function.
\* The structs from Keyed on exercise the environment keys: Keyed, Prefixed and
\* Renamed, SkipConf and SkipNested follow tests.rs (from_env_with_prefix,
\* should_override_with_env_with_prefix_and_rename_and_nested,
\* should_skip_env_for_nested); Fixed has an env_prefix without placeholder,
\* Flat a flattened nested field, Quiet is skip_env as a whole, and the nested
\* fields of Bound have explicit keys: one ending in "_", one empty; the
\* leaves of Parsed have a parse_env function that returns Ok(None) for the
\* empty string.
Shapes ==
  [ Conf     |-> [attrs |-> Container,
                  fields |-> << Leaf("port"), OptionLeaf("addr") >>],
    Nested   |-> [attrs |-> Container,
                  fields |-> << WithDefault(Leaf("port"), 1), Leaf("host") >>],
    App      |-> [attrs |-> Container,
                  fields |-> << Leaf("id"), NestedField("nested", "Nested") >>],
    Inner    |-> [attrs |-> Container,
                  fields |-> << Leaf("port"), OptionLeaf("tag") >>],
    Opt      |-> [attrs |-> Container,
                  fields |-> << OptionNested("nested", "Inner"), Leaf("id") >>],
    Strict   |-> [attrs |-> Container,
                  fields |-> << Leaf("a"), WithMerge(Leaf("once"), "merge_same"), Leaf("b") >>],
    Lists    |-> [attrs |-> Container,
                  fields |-> << SkipEnv(WithMerge(VecLeaf("list"), "append_vec")), OptionLeaf("note") >>],
    Pair     |-> [attrs |-> Container,
                  fields |-> << Leaf("k"), WithMerge(Leaf("once"), "merge_same") >>],
    Outer    |-> [attrs |-> Container,
                  fields |-> << Leaf("x"), WithRename(NestedField("pair", "Pair"), "inner") >>],
    Deep     |-> [attrs |-> Container,
                  fields |-> << NestedField("outer", "Outer") >>],
    Ledger   |-> [attrs |-> Container,
                  fields |-> << SkipEnv(WithMerge(VecLeaf("list"), "append_vec")),
                                WithMerge(Leaf("once"), "merge_same") >>],
    Plain    |-> [attrs |-> Container,
                  fields |-> << Leaf("port") >>],
    OptDef   |-> [attrs |-> Container,
                  fields |-> << OptionNested("db", "Nested"), OptionNested("plain", "Plain") >>],
    Keyed    |-> [attrs |-> WithEnvPrefix(<<"{}", "CONF", "_">>),
                  fields |-> << WithEnv(Leaf("port"), <<"PORT">>),
                                WithEnv(Leaf("size"), <<"{}", "SIZE", "_", "RENAMED">>),
                                WithRename(OptionLeaf("optional"), "opt") >>],
    Fixed    |-> [attrs |-> WithEnvPrefix(<<"FIXED", "_">>),
                  fields |-> << Leaf("port"), NestedField("plain", "Plain") >>],
    Renamed  |-> [attrs |-> Container,
                  fields |-> << WithRename(Leaf("port_renamed"), "port") >>],
    Prefixed |-> [attrs |-> WithEnvPrefix(<<"{}", "CONF", "_">>),
                  fields |-> << NestedField("nested", "Renamed") >>],
    Flat     |-> [attrs |-> Container,
                  fields |-> << Leaf("id"), Flatten(NestedField("base", "Plain")) >>],
    Quiet    |-> [attrs |-> SkipEnvContainer,
                  fields |-> << Leaf("port"), WithEnv(Leaf("addr"), <<"ADDR">>) >>],
    SkipNested |-> [attrs |-> Container,
                  fields |-> << SkipEnv(Leaf("port")) >>],
    SkipConf |-> [attrs |-> Container,
                  fields |-> << NestedField("nested", "SkipNested") >>],
    Bound    |-> [attrs |-> Container,
                  fields |-> << WithEnv(NestedField("db", "Plain"), <<"{}", "DB", "_">>),
                                WithEnv(NestedField("top", "Plain"), <<>>) >>],
    Lenient  |-> [attrs |-> AllowUnknownFields,
                  fields |-> << Leaf("port") >>],
    Parsed   |-> [attrs |-> Container,
                  fields |-> << WithParseEnv(OptionLeaf("addr"), "blank_is_none"),
                                WithParseEnv(Leaf("port"), "blank_is_none") >>],
    Preset   |-> [attrs |-> Container,
                  fields |-> << WithDefault(Leaf("port"), 1) >>],
    Presets  |-> [attrs |-> Container,
                  fields |-> << WithDefault(Leaf("id"), 2), NestedField("nested", "Preset"),
                                SkipEnv(WithDefault(WithMerge(VecLeaf("list"), "append_vec"),
                                                    <<1>>)) >>] ]

\* The structs a ConfigLoader is created for (the others occur nested).
RootShapeSeq ==
  <<"Conf", "App", "Opt", "Strict", "Lists", "Deep", "OptDef", "Ledger", "SkipConf",
    "Lenient", "Presets">>

RootShapes == {RootShapeSeq[i] : i \in 1..Len(RootShapeSeq)}

Fields(s) == Shapes[s].fields

FieldIdx(s) == 1..Len(Fields(s))

Idents(s) == {Fields(s)[i].ident : i \in FieldIdx(s)}

FieldOf(s, id) == CHOOSE f \in {Fields(s)[i] : i \in FieldIdx(s)} : f.ident = id

\* config.rs:144-150: the field's name in paths and in serialized text.
FieldName(f) == IF IsSome(f.rename) THEN Unwrap(f.rename) ELSE f.ident

\* ------------------------------------------------- the mirror (PartialConfig)
RECURSIVE Default(_), Defaults(_), IsEmpty(_, _), ListMissing(_, _)
RECURSIVE Merge(_, _, _), FromPartial(_, _)

\* A Default of the mirror that takes the declared defaults.
FieldDefaultDeclared(f) ==
  IF IsSome(f.default) THEN Some(Unwrap(f.default))
  ELSE IF f.nested /\ ~f.is_option THEN Default(f.shape) ELSE None

\* #[derive(Default)] on the generated mirror: every Option is None, a nested
\* mirror is its own Default, an Option<mirror> is None.
FieldDefault(f) ==
  IF f.nested /\ ~f.is_option THEN Default(f.shape) ELSE None

Default(s) == [id \in Idents(s) |-> FieldDefault(FieldOf(s, id))]

\* Option<T>::defaults as Option's own Default.
OptDefaultsNone(s) == None

\* <Option<T> as PartialConfig>::defaults
OptDefaults(s) ==
  LET inner == Defaults(s)
  IN  IF IsEmpty(s, inner) THEN None ELSE Some(inner)

\* default_fields: one entry of the generated defaults()
FieldDefaults(f) ==
  IF IsSome(f.default) THEN Some(Unwrap(f.default))
  ELSE IF f.nested THEN (IF f.is_option THEN OptDefaults(f.shape) ELSE Defaults(f.shape))
  ELSE None

Defaults(s) == [id \in Idents(s) |-> FieldDefaults(FieldOf(s, id))]

\* <Option<T> as PartialConfig>::is_empty
OptIsEmpty(s, o) == IF IsNone(o) THEN TRUE ELSE IsEmpty(s, Unwrap(o))

\* is_empty_stmts: TRUE when the field's statement does not return false
FieldIsEmpty(f, v) ==
  IF f.nested
  THEN (IF f.is_option THEN OptIsEmpty(f.shape, v) ELSE IsEmpty(f.shape, v))
  ELSE IsNone(v)

IsEmpty(s, m) == \A i \in FieldIdx(s) : FieldIsEmpty(Fields(s)[i], m[Fields(s)[i].ident])

\* A list_missing_properties of Option<T> that reports nothing.
OptListMissingNothing(s, o) == <<>>

\* <Option<T> as PartialConfig>::list_missing_properties
OptListMissing(s, o) ==
  IF IsNone(o) THEN <<>>
  ELSE IF ~IsEmpty(s, Unwrap(o)) THEN ListMissing(s, Unwrap(o)) ELSE <<>>

\* The nested list without the prefix.
PrefixNone(name, props) == props

\* format!("{}.{}", field_name_str, prop) over the nested list
PrefixAll(name, props) == [k \in 1..Len(props) |-> name \o "." \o props[k]]

\* missing_fields_stmts without the test of is_option.
FieldMissingAny(f, v) ==
  IF f.nested
  THEN PrefixAll(FieldName(f),
                 IF f.is_option THEN OptListMissing(f.shape, v) ELSE ListMissing(f.shape, v))
  ELSE IF IsNone(v) THEN << FieldName(f) >> ELSE <<>>

\* missing_fields_stmts: what one field pushes onto missing_fields
FieldMissing(f, v) ==
  IF f.nested
  THEN PrefixAll(FieldName(f),
                 IF f.is_option THEN OptListMissing(f.shape, v) ELSE ListMissing(f.shape, v))
  ELSE IF ~f.is_option /\ IsNone(v) THEN << FieldName(f) >> ELSE <<>>

RECURSIVE MissingFrom(_, _, _)
MissingFrom(s, m, i) ==
  IF i > Len(Fields(s)) THEN <<>>
  ELSE FieldMissing(Fields(s)[i], m[Fields(s)[i].ident]) \o MissingFrom(s, m, i + 1)

ListMissing(s, m) == MissingFrom(s, m, 1)

\* ------------------------------------------------------------ Merge Engine
\* A merge writes through its &mut first argument and returns Result<(), E>:
\* val is what the first argument holds on return, err is None for Ok(()) and
\* Some(e) for Err(e).
MergeOk(val) == [val |-> val, err |-> None]

MergeErr(val, e) == [val |-> val, err |-> Some(e)]

\* merge_flat with the first value winning.
merge_flat_keep(left, right) ==
  IF IsSome(left) THEN MergeOk(left) ELSE MergeOk(right)

\* util::merge_flat
merge_flat(left, right) ==
  IF IsSome(right) THEN MergeOk(Some(Unwrap(right))) ELSE MergeOk(left)

\* merge::append_vec
append_vec(left, right) ==
  IF IsSome(left)
  THEN (IF IsSome(right) THEN MergeOk(Some(Unwrap(left) \o Unwrap(right))) ELSE MergeOk(left))
  ELSE (IF IsSome(right) THEN MergeOk(Some(Unwrap(right))) ELSE MergeOk(left))

\* A merge function supplied through #[config(merge = ...)], of the documented
\* signature fn(&mut Option<T>, Option<T>) -> Result<(), E>: it accepts a value
\* only if none is set yet or the value is the same, and fails with "conflict"
\* otherwise, leaving left as it was.
merge_same(left, right) ==
  IF IsNone(right) THEN MergeOk(left)
  ELSE IF IsSome(left) /\ Unwrap(left) # Unwrap(right) THEN MergeErr(left, "conflict")
  ELSE MergeOk(Some(Unwrap(right)))

\* the path given by #[config(merge = path)]
CustomMerge(fn, left, right) ==
  IF fn = "append_vec" THEN append_vec(left, right) ELSE merge_same(left, right)

\* (Some(me), Some(other)) => me.merge(other)?  : me is the mirror inside self
InSome(r) == [val |-> Some(r.val), err |-> r.err]

\* A merge of Option<T> that takes the incoming Option as it is.
OptMergeTaking(s, self, other) == MergeOk(other)

\* <Option<T> as PartialConfig>::merge
OptMerge(s, self, other) ==
  IF IsNone(self) /\ IsSome(other) THEN MergeOk(other)
  ELSE IF IsSome(self) /\ IsSome(other) THEN InSome(Merge(s, Unwrap(self), Unwrap(other)))
  ELSE MergeOk(self)

\* merge_nested replacing the accumulated mirror by the incoming one.
merge_nested_replace(f, left, right) == MergeOk(right)

\* util::merge_nested: left.merge(right)
merge_nested(f, left, right) ==
  IF f.is_option THEN OptMerge(f.shape, left, right) ELSE Merge(f.shape, left, right)

\* merge_map_err of a field with a custom merge function
MapCustomErr(f, r) ==
  IF IsSome(r.err)
  THEN MergeErr(r.val, [field |-> FieldName(f), message |-> Unwrap(r.err)])
  ELSE r

\* A merge_map_err of a nested field that passes the inner error on as it is.
MapNestedErrBare(f, r) == r

\* merge_map_err of a nested field
MapNestedErr(f, r) ==
  IF IsSome(r.err)
  THEN MergeErr(r.val, [field   |-> FieldName(f) \o "." \o Unwrap(r.err).field,
                        message |-> Unwrap(r.err).message])
  ELSE r

\* merge_partial_fields: #merge_fn(&mut self.#ident, #ident)#merge_map_err
MergeField(f, left, right) ==
  IF f.merge # "" THEN MapCustomErr(f, CustomMerge(f.merge, left, right))
  ELSE IF f.nested THEN MapNestedErr(f, merge_nested(f, left, right))
  ELSE merge_flat(left, right)

\* The generated merge applies the fields in declaration order, each followed by
\* `?`: the first error returns, with the earlier fields already written.
RECURSIVE MergeFields(_, _, _, _)
AfterField(s, self, other, i, r) ==
  IF IsSome(r.err) THEN MergeErr([self EXCEPT ![Fields(s)[i].ident] = r.val], Unwrap(r.err))
  ELSE MergeFields(s, [self EXCEPT ![Fields(s)[i].ident] = r.val], other, i + 1)

MergeFields(s, self, other, i) ==
  IF i > Len(Fields(s)) THEN MergeOk(self)
  ELSE AfterField(s, self, other, i,
                  MergeField(Fields(s)[i], self[Fields(s)[i].ident], other[Fields(s)[i].ident]))

Merge(s, self, other) == MergeFields(s, self, other, 1)

\* ------------------------------------------------------------ Finalizer
\* Result<Self, FromPartialError>, or the panic of an unwrap on None / Err.
Ok(v) == [tag |-> "Ok", value |-> v, missing |-> <<>>]

MissingErr(l) == [tag |-> "Err", value |-> <<>>, missing |-> l]

Panic == [tag |-> "Panic", value |-> <<>>, missing |-> <<>>]

\* let v = T::from_partial(inner)?; Ok(Some(v))
OkSome(r) == IF r.tag = "Ok" THEN Ok(Some(r.value)) ELSE r

\* An Option<T>::from_partial that finishes every mirror that is Some.
OptFromPartialSome(s, o) ==
  IF IsNone(o) THEN Ok(None) ELSE OkSome(FromPartial(s, Unwrap(o)))

\* <Option<T> as Config>::from_partial
OptFromPartial(s, o) ==
  IF IsNone(o) THEN Ok(None)
  ELSE IF IsEmpty(s, Unwrap(o)) THEN Ok(None)
  ELSE OkSome(FromPartial(s, Unwrap(o)))

\* Result::unwrap
UnwrapResult(r) == IF r.tag = "Ok" THEN r ELSE Panic

\* A from_partial_fields that gives every required leaf the same value.
FieldFromPartialFixed(f, v) ==
  IF f.nested
  THEN UnwrapResult(IF f.is_option THEN OptFromPartial(f.shape, v) ELSE FromPartial(f.shape, v))
  ELSE IF ~f.is_option
  THEN (IF IsSome(v) THEN Ok(IF f.ty = "vec" THEN <<>> ELSE 0) ELSE Panic)
  ELSE (IF IsSome(v) THEN Ok(Unwrap(v)) ELSE Ok(None))

\* from_partial_fields: the value one field of the finished struct gets
FieldFromPartial(f, v) ==
  IF f.nested
  THEN UnwrapResult(IF f.is_option THEN OptFromPartial(f.shape, v) ELSE FromPartial(f.shape, v))
  ELSE IF ~f.is_option
  THEN (IF IsSome(v) THEN Ok(Unwrap(v)) ELSE Panic)
  ELSE (IF IsSome(v) THEN Ok(Unwrap(v)) ELSE Ok(None))

\* Ok(Self { ... }): the struct literal of the field values, unless one panicked
Build(s, r) ==
  IF \E id \in Idents(s) : r[id].tag # "Ok" THEN Panic
  ELSE Ok([id \in Idents(s) |-> r[id].value])

\* from_partial without the check of missing_properties.
Unchecked(s, m, missing_properties) ==
  Build(s, [id \in Idents(s) |-> FieldFromPartial(FieldOf(s, id), m[id])])

Checked(s, m, missing_properties) ==
  IF Len(missing_properties) # 0 THEN MissingErr(missing_properties)
  ELSE Build(s, [id \in Idents(s) |-> FieldFromPartial(FieldOf(s, id), m[id])])

FromPartial(s, m) == Checked(s, m, ListMissing(s, m))

\* ------------------------------------------------------------ input domains
\* The values a leaf of the field's type can hold.
TypeVals(f) ==
  IF f.ty = "vec" THEN {<<>>} \cup {<<v>> : v \in Vals} ELSE Vals

\* The values of the mirror's field: Option<T>, Option<Option<T>>, a nested
\* mirror or an Option of one.
RECURSIVE Mirrors(_)
FieldPartials(f) ==
  IF f.nested
  THEN (IF f.is_option
        THEN {None} \cup {Some(m) : m \in Mirrors(f.shape)}
        ELSE Mirrors(f.shape))
  ELSE IF f.is_option
  THEN {None, Some(None)} \cup {Some(Some(v)) : v \in TypeVals(f)}
  ELSE {None} \cup {Some(v) : v \in TypeVals(f)}

RECURSIVE MirrorsFrom(_, _)
MirrorsFrom(s, i) ==
  IF i > Len(Fields(s)) THEN {[id \in {} |-> None]}
  ELSE LET f == Fields(s)[i]
       IN  {[id \in {f.ident} \cup DOMAIN rest |-> IF id = f.ident THEN v ELSE rest[id]] :
              v \in FieldPartials(f), rest \in MirrorsFrom(s, i + 1)}

Mirrors(s) == MirrorsFrom(s, 1)

\* The mirrors handed to ConfigLoader::partial, per struct (a table computed once).
RECURSIVE SourcesFrom(_)
SourcesFrom(i) ==
  IF i > Len(RootShapeSeq) THEN <<>>
  ELSE (RootShapeSeq[i] :> Mirrors(RootShapeSeq[i])) @@ SourcesFrom(i + 1)

Sources == SourcesFrom(1)

\* No list of the mirror is longer than MaxListLen.
RECURSIVE Bounded(_, _)
FieldBounded(f, v) ==
  IF f.nested
  THEN (IF f.is_option THEN IsNone(v) \/ Bounded(f.shape, Unwrap(v)) ELSE Bounded(f.shape, v))
  ELSE IF f.ty = "vec" /\ IsSome(v)
  THEN (IF f.is_option THEN IsNone(Unwrap(v)) \/ Len(Unwrap(Unwrap(v))) <= MaxListLen
        ELSE Len(Unwrap(v)) <= MaxListLen)
  ELSE TRUE

Bounded(s, m) == \A i \in FieldIdx(s) : FieldBounded(Fields(s)[i], m[Fields(s)[i].ident])

\* ------------------------------------------------------------ environment
\* A string that takes part in key derivation is the sequence of its pieces:
\* words without an underscore, "_" and the placeholder "{}".

\* Inflector::to_screaming_snake_case on the field names of Shapes.
ScreamingSnakeCase ==
  [port |-> <<"PORT">>, addr |-> <<"ADDR">>, host |-> <<"HOST">>, id |-> <<"ID">>,
   nested |-> <<"NESTED">>, tag |-> <<"TAG">>, a |-> <<"A">>, once |-> <<"ONCE">>,
   b |-> <<"B">>, list |-> <<"LIST">>, note |-> <<"NOTE">>, k |-> <<"K">>,
   x |-> <<"X">>, pair |-> <<"PAIR">>, inner |-> <<"INNER">>, outer |-> <<"OUTER">>,
   db |-> <<"DB">>, plain |-> <<"PLAIN">>, size |-> <<"SIZE">>,
   optional |-> <<"OPTIONAL">>, opt |-> <<"OPT">>, base |-> <<"BASE">>,
   top |-> <<"TOP">>, port_renamed |-> <<"PORT", "_", "RENAMED">>]

to_screaming_snake_case(name) == ScreamingSnakeCase[name]

fmt_has_prefix(fmt) == \E i \in 1..Len(fmt) : fmt[i] = "{}"

\* format!(fmt, a)
RECURSIVE Format(_, _)
Format(fmt, a) ==
  IF Len(fmt) = 0 THEN <<>>
  ELSE (IF Head(fmt) = "{}" THEN a ELSE <<Head(fmt)>>) \o Format(Tail(fmt), a)

container_env_prefix_fmt(s) ==
  IF IsSome(Shapes[s].attrs.env_prefix) THEN Unwrap(Shapes[s].attrs.env_prefix) ELSE <<"{}">>

\* A container prefix that is always appended to the inherited one.
get_container_env_prefix_appended(s, env_prefix) ==
  env_prefix \o Format(container_env_prefix_fmt(s), <<>>)

get_container_env_prefix(s, env_prefix) ==
  IF fmt_has_prefix(container_env_prefix_fmt(s))
  THEN Format(container_env_prefix_fmt(s), env_prefix)
  ELSE container_env_prefix_fmt(s)

env_name(f) == to_screaming_snake_case(IF IsSome(f.rename) THEN Unwrap(f.rename) ELSE f.ident)

env_fmt(f) ==
  IF IsSome(f.env) THEN Unwrap(f.env)
  ELSE IF f.flatten THEN <<"{}">>
  ELSE <<"{}">> \o env_name(f)

\* A field key that is always placed after the container's prefix.
get_field_env_key_prefixed(f, container_env_prefix) ==
  container_env_prefix \o Format(env_fmt(f), <<>>)

get_field_env_key(f, container_env_prefix) ==
  IF fmt_has_prefix(env_fmt(f)) THEN Format(env_fmt(f), container_env_prefix) ELSE env_fmt(f)

\* No field is excluded from the environment.
skip_env_never(s, f) == FALSE

skip_env(s, f) == IF Shapes[s].attrs.skip_env THEN IsNone(f.env) ELSE f.skip_env

\* A nested prefix that always gets the underscore.
nested_prefix_pushed(key) == key \o <<"_">>

\* if !nested_prefix.is_empty() && !nested_prefix.ends_with('_') { push('_') }
nested_prefix(key) ==
  IF Len(key) # 0 /\ key[Len(key)] # "_" THEN key \o <<"_">> ELSE key

\* An environment variable's value: its characters, or bytes that are not UTF-8.
EnvText(text) == [utf8 |-> TRUE, text |-> text]

NotUnicode == [utf8 |-> FALSE, text |-> <<>>]

\* A provider that fails for a variable that is not set.
get_required(env, key) ==
  IF key \notin DOMAIN env \/ ~env[key].utf8 THEN [tag |-> "Err", value |-> None]
  ELSE [tag |-> "Ok", value |-> Some(env[key].text)]

\* EnvProvider::get (StdEnv): Ok(None) for a variable that is not set,
\* Err(VarError::NotUnicode) for one that is not UTF-8.
get(env, key) ==
  IF key \notin DOMAIN env THEN [tag |-> "Ok", value |-> None]
  ELSE IF ~env[key].utf8 THEN [tag |-> "Err", value |-> None]
  ELSE [tag |-> "Ok", value |-> Some(env[key].text)]

Digits == <<"0", "1", "2", "3", "4", "5", "6", "7", "8", "9">>

IsDigit(c) == \E d \in 1..Len(Digits) : Digits[d] = c

DigitVal(c) == (CHOOSE d \in 1..Len(Digits) : Digits[d] = c) - 1

RECURSIVE Decimal(_, _)
Decimal(text, acc) ==
  IF Len(text) = 0 THEN acc ELSE Decimal(Tail(text), acc * Len(Digits) + DigitVal(Head(text)))

\* <u16 as FromStr>::from_str
u16_from_str(text) ==
  IF Len(text) = 0
  THEN [tag |-> "Err", value |-> 0, message |-> "cannot parse integer from empty string"]
  ELSE IF \E i \in 1..Len(text) : ~IsDigit(text[i])
  THEN [tag |-> "Err", value |-> 0, message |-> "invalid digit found in string"]
  ELSE IF Decimal(text, 0) >= 2^16
  THEN [tag |-> "Err", value |-> 0, message |-> "number too large to fit in target type"]
  ELSE [tag |-> "Ok", value |-> Decimal(text, 0), message |-> ""]

\* Result<Self, FromEnvError>
EnvOk(v) == [tag |-> "Ok", value |-> v, err |-> <<>>]

EnvErr(key, field, message) ==
  [tag |-> "Err", value |-> <<>>, err |-> [key |-> key, field |-> field, message |-> message]]

\* A function for #[config(parse_env)], fn(&str) -> Result<Option<T>, E>:
\* Ok(None) for the empty string, the number otherwise.
blank_is_none(text) ==
  IF Len(text) = 0 THEN [tag |-> "Ok", value |-> None, message |-> ""]
  ELSE LET r == u16_from_str(text)
       IN  [r EXCEPT !.value = IF r.tag = "Ok" THEN Some(r.value) ELSE None]

\* A parse_env_fn that uses the function's result as the mirror's Option also
\* for a field that is an Option.
parse_env_fn_flat(f, env_value) ==
  IF f.parse_env = ""
  THEN LET r == u16_from_str(env_value)
       IN  [r EXCEPT !.value = IF r.tag = "Err" THEN None
                               ELSE IF f.is_option THEN Some(Some(r.value))
                               ELSE Some(r.value)]
  ELSE blank_is_none(env_value)

\* parse_env_fn: FromStr::from_str mapped to Some (Some(Some(v)) for a field
\* that is an Option), or the field's parse_env function, mapped to Some for a
\* field that is an Option
parse_env_fn(f, env_value) ==
  IF f.parse_env = ""
  THEN LET r == u16_from_str(env_value)
       IN  [r EXCEPT !.value = IF r.tag = "Err" THEN None
                               ELSE IF f.is_option THEN Some(Some(r.value))
                               ELSE Some(r.value)]
  ELSE LET r == blank_is_none(env_value)
       IN  [r EXCEPT !.value = IF r.tag = "Err" THEN None
                               ELSE IF f.is_option THEN Some(r.value)
                               ELSE r.value]

\* #parse_env_fn.map_err(..)?
ParsedLeaf(f, key, r) ==
  IF r.tag = "Err" THEN EnvErr(key, FieldName(f), r.message) ELSE EnvOk(r.value)

\* from_env_field of a leaf, after env.get(&key)
GotLeaf(f, key, env_string_option) ==
  IF env_string_option.tag = "Err" THEN EnvErr(key, FieldName(f), "not unicode")
  ELSE IF IsNone(env_string_option.value) THEN EnvOk(None)
  ELSE ParsedLeaf(f, key, parse_env_fn(f, Unwrap(env_string_option.value)))

\* A map_err of a nested field that passes the inner error on as it is.
MapEnvErrBare(f, r) == r

\* the map_err of a nested field: the deep path to the field, the key as it is
MapEnvErr(f, r) ==
  IF r.tag = "Err"
  THEN EnvErr(r.err.key, FieldName(f) \o "." \o r.err.field, r.err.message)
  ELSE r

\* <Option<T> as PartialConfig>::from_env_with_provider_and_optional_prefix
OptFromEnv(s, r) ==
  IF r.tag = "Err" THEN r
  ELSE IF IsEmpty(s, r.value) THEN EnvOk(None)
  ELSE EnvOk(Some(r.value))

RECURSIVE FromEnv(_, _, _)

\* from_env_field: the value of one field of the mirror, or the error
FieldFromEnv(s, f, env, container_env_prefix) ==
  IF skip_env(s, f) THEN EnvOk(None)
  ELSE IF f.nested
  THEN MapEnvErr(f,
         IF f.is_option
         THEN OptFromEnv(f.shape,
                FromEnv(f.shape, env, Some(nested_prefix(get_field_env_key(f, container_env_prefix)))))
         ELSE FromEnv(f.shape, env, Some(nested_prefix(get_field_env_key(f, container_env_prefix)))))
  ELSE GotLeaf(f, get_field_env_key(f, container_env_prefix),
               get(env, get_field_env_key(f, container_env_prefix)))

\* Ok(Self { #(#from_env_fields)* }): the fields in declaration order, the first
\* `?` that fails returns.
RECURSIVE EnvFields(_, _, _, _, _)
AfterEnvField(s, env, container_env_prefix, i, acc, r) ==
  IF r.tag = "Err" THEN r
  ELSE EnvFields(s, env, container_env_prefix, i + 1,
                 [acc EXCEPT ![Fields(s)[i].ident] = r.value])

EnvFields(s, env, container_env_prefix, i, acc) ==
  IF i > Len(Fields(s)) THEN EnvOk(acc)
  ELSE AfterEnvField(s, env, container_env_prefix, i, acc,
                     FieldFromEnv(s, Fields(s)[i], env, container_env_prefix))

\* the generated from_env_with_provider_and_optional_prefix
FromEnv(s, env, prefix) ==
  EnvFields(s, env,
            get_container_env_prefix(s, IF IsSome(prefix) THEN Unwrap(prefix) ELSE <<>>),
            1, Default(s))

\* ------------------------------------------------------------ environments
\* Most variables a provider holds.
MaxEnvVars == 1

\* The prefixes passed to from_env: none, or APP_.
Prefixes == {None, Some(<<"APP", "_">>)}

\* The text of a leaf value, as its Display prints it.
ToText(v) == <<Digits[v + 1]>>

\* What a variable may hold: the text of a value, a text that is no number,
\* the empty string, or bytes that are not UTF-8.
EnvEntries == {EnvText(ToText(v)) : v \in Vals} \cup {EnvText(<<"x">>), EnvText(<<>>), NotUnicode}

\* The keys derived for the leaves of struct s under a prefix, in declaration
\* order: those from_env looks up and, for a leaf excluded by skip_env, the key
\* it would look up otherwise.
RECURSIVE EnvKeys(_, _), EnvKeysFrom(_, _, _)
FieldEnvKeys(s, f, container_env_prefix) ==
  IF f.nested
  THEN EnvKeys(f.shape, Some(nested_prefix(get_field_env_key(f, container_env_prefix))))
  ELSE << get_field_env_key(f, container_env_prefix) >>

EnvKeysFrom(s, container_env_prefix, i) ==
  IF i > Len(Fields(s)) THEN <<>>
  ELSE FieldEnvKeys(s, Fields(s)[i], container_env_prefix)
       \o EnvKeysFrom(s, container_env_prefix, i + 1)

EnvKeys(s, prefix) ==
  EnvKeysFrom(s, get_container_env_prefix(s, IF IsSome(prefix) THEN Unwrap(prefix) ELSE <<>>), 1)

\* The providers holding at most n of keys[i..]
RECURSIVE EnvsFrom(_, _, _)
EnvsFrom(keys, i, n) ==
  IF i > Len(keys) \/ n = 0 THEN {<<>>}
  ELSE EnvsFrom(keys, i + 1, n)
       \cup {(keys[i] :> e) @@ rest : e \in EnvEntries, rest \in EnvsFrom(keys, i + 1, n - 1)}

\* The calls of ConfigLoader::_env, per struct: the provider and the prefix.
EnvCalls(s) ==
  UNION {{[env |-> env, prefix |-> prefix] : env \in EnvsFrom(EnvKeys(s, prefix), 1, MaxEnvVars)} :
           prefix \in Prefixes}

RECURSIVE EnvInputsFrom(_)
EnvInputsFrom(i) ==
  IF i > Len(RootShapeSeq) THEN <<>>
  ELSE (RootShapeSeq[i] :> EnvCalls(RootShapeSeq[i])) @@ EnvInputsFrom(i + 1)

EnvInputs == EnvInputsFrom(1)

\* ------------------------------------------------------------ documents
\* The text handed to _code, as the value its syntax denotes (Format::Json), or
\* a text that is not well formed.
JNull == [kind |-> "null", num |-> 0, items |-> <<>>, members |-> <<>>]

JNum(n) == [kind |-> "number", num |-> n, items |-> <<>>, members |-> <<>>]

JString == [kind |-> "string", num |-> 0, items |-> <<>>, members |-> <<>>]

JArray(l) == [kind |-> "array", num |-> 0, items |-> l, members |-> <<>>]

JObject(o) == [kind |-> "object", num |-> 0, items |-> <<>>, members |-> o]

Malformed == [kind |-> "malformed", num |-> 0, items |-> <<>>, members |-> <<>>]

\* Result<T::Partial, serde_json::Error>
DeOk(v) == [tag |-> "Ok", value |-> v, err |-> <<>>]

DeErr == [tag |-> "Err", value |-> <<>>, err |-> [message |-> "invalid document"]]

RECURSIVE Deserialize(_, _)

\* Deserialize of Option<T>: null is None, anything else is Some(T)
DeLeaf(f, j) ==
  IF j.kind = "null" THEN DeOk(None)
  ELSE IF f.ty = "vec" /\ j.kind = "array"
  THEN DeOk(IF f.is_option THEN Some(Some(j.items)) ELSE Some(j.items))
  ELSE IF f.ty = "u16" /\ j.kind = "number"
  THEN DeOk(IF f.is_option THEN Some(Some(j.num)) ELSE Some(j.num))
  ELSE DeErr

DeSome(r) == IF r.tag = "Ok" THEN DeOk(Some(r.value)) ELSE r

DeNested(f, j) ==
  IF f.is_option /\ j.kind = "null" THEN DeOk(None)
  ELSE IF j.kind # "object" THEN DeErr
  ELSE IF f.is_option THEN DeSome(Deserialize(f.shape, j.members))
  ELSE Deserialize(f.shape, j.members)

\* One field of the mirror: #[serde(default)] when the document has no such key.
DeField(f, o) ==
  IF FieldName(f) \notin DOMAIN o THEN DeOk(FieldDefault(f))
  ELSE IF f.nested THEN DeNested(f, o[FieldName(f)])
  ELSE DeLeaf(f, o[FieldName(f)])

FieldNames(s) == {FieldName(Fields(s)[i]) : i \in FieldIdx(s)}

DeStruct(s, r) ==
  IF \E id \in Idents(s) : r[id].tag = "Err" THEN DeErr
  ELSE DeOk([id \in Idents(s) |-> r[id].value])

\* A Deserialize that denies unknown fields whatever the struct's attributes.
DeserializeDenying(s, o) ==
  IF ~(DOMAIN o \subseteq FieldNames(s)) THEN DeErr
  ELSE DeStruct(s, [id \in Idents(s) |-> DeField(FieldOf(s, id), o)])

\* the derived Deserialize of the mirror, #[serde(deny_unknown_fields)] unless
\* the struct has allow_unknown_fields
Deserialize(s, o) ==
  IF ~Shapes[s].attrs.allow_unknown_fields /\ ~(DOMAIN o \subseteq FieldNames(s)) THEN DeErr
  ELSE DeStruct(s, [id \in Idents(s) |-> DeField(FieldOf(s, id), o)])

\* serde_json::from_str::<T::Partial>(code)
from_str(s, j) == IF j.kind = "object" THEN Deserialize(s, j.members) ELSE DeErr

\* Serialize of a leaf that is Some: an Option inside that is None is null
SerLeaf(f, v) ==
  IF f.is_option /\ IsNone(Unwrap(v)) THEN JNull
  ELSE LET x == IF f.is_option THEN Unwrap(Unwrap(v)) ELSE Unwrap(v)
       IN  IF f.ty = "vec" THEN JArray(x) ELSE JNum(x)

\* #[serde(skip_serializing_if = ...)]: Option::is_none for a leaf,
\* PartialConfig::is_empty for a nested mirror
SerSkipped(f, v) == FieldIsEmpty(f, v)

\* the derived Serialize of the mirror: the members of its object
RECURSIVE Serialize(_, _), SerializeFrom(_, _, _)
SerField(f, v) ==
  IF f.nested
  THEN JObject(Serialize(f.shape, IF f.is_option THEN Unwrap(v) ELSE v))
  ELSE SerLeaf(f, v)

SerializeFrom(s, m, i) ==
  IF i > Len(Fields(s)) THEN <<>>
  ELSE IF SerSkipped(Fields(s)[i], m[Fields(s)[i].ident]) THEN SerializeFrom(s, m, i + 1)
  ELSE (FieldName(Fields(s)[i]) :> SerField(Fields(s)[i], m[Fields(s)[i].ident]))
       @@ SerializeFrom(s, m, i + 1)

Serialize(s, m) == SerializeFrom(s, m, 1)

\* serde_json::to_string(&partial)
to_string(s, m) == JObject(Serialize(s, m))

\* Most keys of fields a document holds, over all its objects.
MaxDocKeys == 1

\* The values a document gives a leaf: null, a value of the leaf's type, or a
\* string, which no leaf of Shapes accepts.
LeafJson(f) ==
  {JNull, JString}
  \cup (IF f.ty = "vec" THEN {JArray(l) : l \in TypeVals(f)} ELSE {JNum(v) : v \in TypeVals(f)})

\* The objects for struct s with at most n keys: keys of the fields from
\* position i on, and the key "unknown", which no struct of Shapes has.
RECURSIVE ObjectsFrom(_, _, _)
FieldJson(f, n) ==
  IF f.nested THEN {JNull} \cup {JObject(o) : o \in ObjectsFrom(f.shape, 1, n)}
  ELSE LeafJson(f)

ObjectsFrom(s, i, n) ==
  IF n = 0 THEN {<<>>}
  ELSE IF i > Len(Fields(s)) THEN {<<>>, "unknown" :> JNum(1)}
  ELSE ObjectsFrom(s, i + 1, n)
       \cup UNION {{(FieldName(Fields(s)[i]) :> v) @@ rest :
                      v \in FieldJson(Fields(s)[i], inside),
                      rest \in ObjectsFrom(s, i + 1, n - 1 - inside)} : inside \in 0..(n - 1)}

\* The texts handed to _code, per struct: the objects, and the objects with the
\* key "unknown" beside their other keys.
Documents(s) ==
  {Malformed, JNum(1)}
  \cup {JObject(o) : o \in ObjectsFrom(s, 1, MaxDocKeys)}
  \cup {JObject(("unknown" :> JNum(1)) @@ o) : o \in ObjectsFrom(s, 1, MaxDocKeys)}

RECURSIVE DocInputsFrom(_)
DocInputsFrom(i) ==
  IF i > Len(RootShapeSeq) THEN <<>>
  ELSE (RootShapeSeq[i] :> Documents(RootShapeSeq[i])) @@ DocInputsFrom(i + 1)

DocInputs == DocInputsFrom(1)

\* ------------------------------------------------------------ leaves by selector
\* A selector leads from the root mirror to a leaf: the sequence of the fields'
\* positions in their structs.
RECURSIVE LeafSels(_)
LeafSels(s) ==
  UNION {LET f == Fields(s)[i]
         IN  IF f.nested THEN {<<i>> \o sel : sel \in LeafSels(f.shape)}
             ELSE {<<i>>} : i \in FieldIdx(s)}

\* The field descriptor a selector ends at.
RECURSIVE SelField(_, _)
SelField(s, sel) ==
  LET f == Fields(s)[sel[1]]
  IN  IF Len(sel) = 1 THEN f ELSE SelField(f.shape, Tail(sel))

\* The leaf's Option in mirror m; None beneath an Option<mirror> that is None.
RECURSIVE At(_, _, _)
At(s, m, sel) ==
  LET f == Fields(s)[sel[1]]
      v == m[f.ident]
  IN  IF Len(sel) = 1 THEN v
      ELSE IF f.is_option
      THEN (IF IsNone(v) THEN None ELSE At(f.shape, Unwrap(v), Tail(sel)))
      ELSE At(f.shape, v, Tail(sel))

\* The leaves merged by the default policy (util::merge_flat) along a path of
\* nested fields merged by the default policy (util::merge_nested).
RECURSIVE DefaultPolicy(_, _)
DefaultPolicy(s, sel) ==
  LET f == Fields(s)[sel[1]]
  IN  f.merge = "" /\ (Len(sel) = 1 \/ DefaultPolicy(f.shape, Tail(sel)))

\* ------------------------------------------------------------ ConfigLoader
VARIABLES
  T,         \* the struct T of ConfigLoader<T>
  partial,   \* ConfigLoader::partial
  phase,     \* "accumulating", or "finished" once finish(self) consumed the loader
  last,      \* the last operation: its name and its result
  arg,       \* the call under test in MergeSpec: self as it was, and other; None otherwise
  lastSeen,  \* history: per leaf, its value in the last successfully added
             \* source in which it was present
  joined     \* history: per list leaf, the lists of the successfully added
             \* sources in which it was present, one after the other

vars == <<T, partial, phase, last, arg, lastSeen, joined>>

AddOk == [tag |-> "Ok", kind |-> "", err |-> <<>>, value |-> <<>>]

AddErr(kind, e) == [tag |-> "Err", kind |-> kind, err |-> e, value |-> <<>>]

\* The leaf selectors, per struct (a table computed once).
RECURSIVE SelsFrom(_)
SelsFrom(i) ==
  IF i > Len(RootShapeSeq) THEN <<>>
  ELSE (RootShapeSeq[i] :> LeafSels(RootShapeSeq[i])) @@ SelsFrom(i + 1)

Sels == SelsFrom(1)

\* ConfigLoader::new
Init ==
  /\ T \in RootShapes
  /\ partial = Default(T)
  /\ phase = "accumulating"
  /\ last = [op |-> "new", res |-> AddOk]
  /\ arg = None
  /\ lastSeen = [sel \in Sels[T] |-> None]
  /\ joined = [sel \in Sels[T] |-> None]

\* History update for a source whose add returned Ok.
Seen(src) ==
  [sel \in Sels[T] |->
     IF IsSome(At(T, src, sel)) THEN At(T, src, sel) ELSE lastSeen[sel]]

\* History update of the list leaves for a source whose add returned Ok.
Joined(src) ==
  [sel \in Sels[T] |->
     IF SelField(T, sel).ty = "vec" /\ IsSome(At(T, src, sel))
     THEN (IF IsSome(joined[sel])
           THEN Some(Unwrap(joined[sel]) \o Unwrap(At(T, src, sel)))
           ELSE At(T, src, sel))
     ELSE joined[sel]]

\* ConfigLoader::_add: self.partial.merge(partial)?; merge works on
\* &mut self.partial, so what it wrote before failing stays.
Added(op, src, r) ==
  /\ Bounded(T, r.val)
  /\ partial' = r.val
  /\ last' = [op |-> op,
              res |-> IF IsSome(r.err) THEN AddErr("Merge", Unwrap(r.err)) ELSE AddOk]
  /\ lastSeen' = IF IsSome(r.err) THEN lastSeen ELSE Seen(src)
  /\ joined' = IF IsSome(r.err) THEN joined ELSE Joined(src)
  /\ UNCHANGED <<T, phase, arg>>

_add(op, src) == Added(op, src, Merge(T, partial, src))

\* ConfigLoader::partial
AddPartial ==
  /\ phase = "accumulating"
  /\ \E p \in Sources[T] : _add("partial", p)

\* A defaults that puts the declared defaults beneath what is accumulated.
AddDefaultsBeneath ==
  /\ phase = "accumulating"
  /\ Added("defaults", Defaults(T), Merge(T, Defaults(T), partial))

\* ConfigLoader::defaults
AddDefaults ==
  /\ phase = "accumulating"
  /\ _add("defaults", Defaults(T))

\* A failed _code or _env that leaves a new mirror behind.
AddedOrReset(op, kind, r) ==
  IF r.tag = "Err"
  THEN /\ last' = [op |-> op, res |-> AddErr(kind, r.err)]
       /\ partial' = Default(T)
       /\ UNCHANGED <<T, phase, arg, lastSeen, joined>>
  ELSE _add(op, r.value)

\* ConfigLoader::_code and ConfigLoader::_env after the `?`: the error returns
\* before _add is called.
AddedOrFailed(op, kind, r) ==
  IF r.tag = "Err"
  THEN /\ last' = [op |-> op, res |-> AddErr(kind, r.err)]
       /\ UNCHANGED <<T, partial, phase, arg, lastSeen, joined>>
  ELSE _add(op, r.value)

\* What serde_json::from_str returns for the texts handed to _code, per struct
\* (a table computed once).
RECURSIVE CodeResultsFrom(_)
CodeResultsFrom(i) ==
  IF i > Len(RootShapeSeq) THEN <<>>
  ELSE (RootShapeSeq[i] :> {from_str(RootShapeSeq[i], code) : code \in DocInputs[RootShapeSeq[i]]})
       @@ CodeResultsFrom(i + 1)

CodeResults == CodeResultsFrom(1)

\* What from_env returns for the calls of _env, per struct (a table computed once).
RECURSIVE EnvResultsFrom(_)
EnvResultsFrom(i) ==
  IF i > Len(RootShapeSeq) THEN <<>>
  ELSE (RootShapeSeq[i] :> {FromEnv(RootShapeSeq[i], call.env, call.prefix) :
                              call \in EnvInputs[RootShapeSeq[i]]})
       @@ EnvResultsFrom(i + 1)

EnvResults == EnvResultsFrom(1)

\* ConfigLoader::_code (Format::Json): serde_json::from_str(code)?, then _add
AddCode ==
  /\ phase = "accumulating"
  /\ \E r \in CodeResults[T] : AddedOrFailed("code", "Json", r)

\* ConfigLoader::_env: from_env_with_provider_and_optional_prefix(env, prefix)?,
\* then _add
AddEnv ==
  /\ phase = "accumulating"
  /\ \E r \in EnvResults[T] : AddedOrFailed("env", "FromEnv", r)

Finished(r) ==
  /\ last' = [op |-> "finish",
              res |-> IF r.tag = "Err"
                      THEN AddErr("FromPartial", [missing_properties |-> r.missing])
                      ELSE [tag |-> r.tag, kind |-> "", err |-> <<>>, value |-> r.value]]
  /\ phase' = "finished"
  /\ UNCHANGED <<T, partial, arg, lastSeen, joined>>

\* ConfigLoader::finish
Finish ==
  /\ phase = "accumulating"
  /\ Finished(FromPartial(T, partial))

Next == AddPartial \/ AddDefaults \/ AddCode \/ AddEnv \/ Finish

Spec == Init /\ [][Next]_vars

\* ------------------------------------------------------------ one merge
\* PartialConfig::merge as a function of (self, other): self and other range
\* over the mirrors of the struct, and the one step applies merge.
MergeInit ==
  /\ T \in RootShapes
  /\ partial \in Sources[T]
  /\ arg \in {Some([self |-> partial, other |-> o]) : o \in Sources[T]}
  /\ phase = "accumulating"
  /\ last = [op |-> "new", res |-> AddOk]
  /\ lastSeen = [sel \in Sels[T] |-> None]
  /\ joined = [sel \in Sels[T] |-> None]

Merged(r) ==
  /\ partial' = r.val
  /\ last' = [op |-> "merge",
              res |-> IF IsSome(r.err) THEN AddErr("Merge", Unwrap(r.err)) ELSE AddOk]
  /\ UNCHANGED <<T, phase, arg, lastSeen, joined>>

MergeCall ==
  /\ last.op = "new"
  /\ Merged(Merge(T, partial, Unwrap(arg).other))

MergeSpec == MergeInit /\ [][MergeCall]_vars

\* ------------------------------------------------------------ from_partial twice
\* Config::from_partial as a function of the mirror: two mirrors of the struct
\* are drawn, and the one step applies from_partial to each.
FinalizeInit ==
  /\ T \in RootShapes
  /\ arg \in {Some([self |-> a, other |-> b]) : a, b \in Sources[T]}
  /\ partial = Unwrap(arg).self
  /\ phase = "accumulating"
  /\ last = [op |-> "new", res |-> AddOk]
  /\ lastSeen = <<>>
  /\ joined = <<>>

FinalizeCall ==
  /\ last.op = "new"
  /\ last' = [op |-> "from_partial",
              res |-> [self |-> FromPartial(T, Unwrap(arg).self),
                       other |-> FromPartial(T, Unwrap(arg).other)]]
  /\ UNCHANGED <<T, partial, phase, arg, lastSeen, joined>>

FinalizeSpec == FinalizeInit /\ [][FinalizeCall]_vars

\* ------------------------------------------------------------ one _code
\* ConfigLoader::_code as a function of (self.partial, code): the accumulated
\* mirror ranges over the mirrors of the struct, the text over the documents,
\* and the one step applies _code.
CodeInit ==
  /\ T \in RootShapes
  /\ arg \in {Some([self |-> m, code |-> c]) : m \in Sources[T], c \in DocInputs[T]}
  /\ partial = Unwrap(arg).self
  /\ phase = "accumulating"
  /\ last = [op |-> "new", res |-> AddOk]
  /\ lastSeen = <<>>
  /\ joined = <<>>

\* let partial = serde_json::from_str(code).map_err(..)?; self._add(partial)
CodeLoaded(r) ==
  IF r.tag = "Err"
  THEN /\ last' = [op |-> "code", res |-> AddErr("Json", r.err)]
       /\ UNCHANGED <<T, partial, phase, arg, lastSeen, joined>>
  ELSE LET m == Merge(T, partial, r.value)
       IN  /\ partial' = m.val
           /\ last' = [op |-> "code",
                       res |-> IF IsSome(m.err) THEN AddErr("Merge", Unwrap(m.err)) ELSE AddOk]
           /\ UNCHANGED <<T, phase, arg, lastSeen, joined>>

CodeCall ==
  /\ last.op = "new"
  /\ CodeLoaded(from_str(T, Unwrap(arg).code))

CodeSpec == CodeInit /\ [][CodeCall]_vars

\* ------------------------------------------------------------ one _env
\* ConfigLoader::_env as a function of (self.partial, env, prefix): the
\* accumulated mirror ranges over the mirrors of the struct, the call over the
\* providers and prefixes, and the one step applies _env.
EnvShapeSeq ==
  <<"Conf", "App", "Opt", "Deep", "Keyed", "Fixed", "Prefixed", "Flat", "Quiet",
    "SkipNested", "SkipConf", "Bound", "Parsed">>

EnvShapes == {EnvShapeSeq[i] : i \in 1..Len(EnvShapeSeq)}

\* The calls of _env under a prefix that does not end in an underscore.
EnvCallsBare(s) ==
  {[env |-> env, prefix |-> Some(<<"APP">>)] :
     env \in EnvsFrom(EnvKeys(s, Some(<<"APP">>)), 1, MaxEnvVars)}

\* A provider also holding a variable that is no key of any struct.
WithOther(env) == (<<"OTHER">> :> EnvText(ToText(1))) @@ env

\* The call of _env on an accumulated mirror: the provider as it is, or with
\* the variable OTHER besides.
EnvInit ==
  /\ T \in EnvShapes
  /\ \E m \in Mirrors(T), c \in EnvCalls(T) \cup EnvCallsBare(T) :
       \E env \in {c.env, WithOther(c.env)} :
         arg = Some([self |-> m, env |-> env, prefix |-> c.prefix])
  /\ partial = Unwrap(arg).self
  /\ phase = "accumulating"
  /\ last = [op |-> "new", res |-> AddOk]
  /\ lastSeen = <<>>
  /\ joined = <<>>

\* self._add(partial) of _env: self.partial.merge(partial)?
EnvMerged(r) ==
  /\ partial' = r.val
  /\ last' = [op |-> "env",
              res |-> IF IsSome(r.err) THEN AddErr("Merge", Unwrap(r.err)) ELSE AddOk]
  /\ UNCHANGED <<T, phase, arg, lastSeen, joined>>

\* let partial = T::Partial::from_env_with_provider_and_optional_prefix(env, prefix)?
EnvLoaded(r) ==
  IF r.tag = "Err"
  THEN /\ last' = [op |-> "env", res |-> AddErr("FromEnv", r.err)]
       /\ UNCHANGED <<T, partial, phase, arg, lastSeen, joined>>
  ELSE EnvMerged(Merge(T, partial, r.value))

EnvCall ==
  /\ last.op = "new"
  /\ EnvLoaded(FromEnv(T, Unwrap(arg).env, Unwrap(arg).prefix))

EnvSpec == EnvInit /\ [][EnvCall]_vars

\* ------------------------------------------------------------ paths and leaves
\* The leaf selectors of struct s in declaration order.
RECURSIVE LeafSelSeq(_), LeafSelSeqFrom(_, _)
PrependAll(i, sels) == [k \in 1..Len(sels) |-> <<i>> \o sels[k]]

LeafSelSeqFrom(s, i) ==
  IF i > Len(Fields(s)) THEN <<>>
  ELSE (IF Fields(s)[i].nested THEN PrependAll(i, LeafSelSeq(Fields(s)[i].shape)) ELSE << <<i>> >>)
       \o LeafSelSeqFrom(s, i + 1)

LeafSelSeq(s) == LeafSelSeqFrom(s, 1)

\* The dotted path of a leaf: the names of the fields from the root to it.
RECURSIVE PathOf(_, _)
PathOf(s, sel) ==
  IF Len(sel) = 1 THEN FieldName(Fields(s)[sel[1]])
  ELSE FieldName(Fields(s)[sel[1]]) \o "." \o PathOf(Fields(s)[sel[1]].shape, Tail(sel))

\* The dotted paths of the nested fields of s, at every depth.
RECURSIVE NestedPaths(_)
NestedPaths(s) ==
  UNION {IF Fields(s)[i].nested
         THEN {FieldName(Fields(s)[i])}
              \cup {FieldName(Fields(s)[i]) \o "." \o p : p \in NestedPaths(Fields(s)[i].shape)}
         ELSE {} : i \in FieldIdx(s)}

Required(s, sel) == ~SelField(s, sel).is_option

RequiredPaths(s) == {PathOf(s, sel) : sel \in {x \in LeafSels(s) : Required(s, x)}}

OptionalPaths(s) == {PathOf(s, sel) : sel \in {x \in LeafSels(s) : ~Required(s, x)}}

DefaultSels(s) == {sel \in LeafSels(s) : DefaultPolicy(s, sel)}

\* The selectors of the leaves inside nested fields.
NestedSels(s) == {sel \in LeafSels(s) : Len(sel) > 1}

\* The leaf lies beneath an Option<mirror> that is None or empty in m.
RECURSIVE Dormant(_, _, _)
Dormant(s, m, sel) ==
  LET f == Fields(s)[sel[1]]
      v == m[f.ident]
  IN  IF Len(sel) = 1 THEN FALSE
      ELSE IF f.is_option
      THEN IsNone(v) \/ IsEmpty(f.shape, Unwrap(v)) \/ Dormant(f.shape, Unwrap(v), Tail(sel))
      ELSE Dormant(f.shape, v, Tail(sel))

\* The paths of the selectors of sels, in order, that satisfy keep.
RECURSIVE PathsWhere(_, _, _)
PathsWhere(s, sels, keep) ==
  IF Len(sels) = 0 THEN <<>>
  ELSE (IF Head(sels) \in keep THEN << PathOf(s, Head(sels)) >> ELSE <<>>)
       \o PathsWhere(s, Tail(sels), keep)

\* the mirror merge was called on, and its argument (MergeSpec)
Self == Unwrap(arg).self

Other == Unwrap(arg).other

\* The position of the leaf with this path in the declaration order of T.
PosOf(path) ==
  CHOOSE k \in 1..Len(LeafSelSeq(T)) : PathOf(T, LeafSelSeq(T)[k]) = path

PosOfSel(sel) == CHOOSE k \in 1..Len(LeafSelSeq(T)) : LeafSelSeq(T)[k] = sel

\* ------------------------------------------------------------ C1
\* C1, as stated: after any sequence of adds, every leaf with the default merge
\* policy holds the value it has in the last added source in which it is
\* present, and is absent if it is present in none.
C1_LastWins ==
  \A sel \in DefaultSels(T) : At(T, partial, sel) = lastSeen[sel]

\* ------------------------------------------------------------ C2
\* C2, as stated: after every single merge(self, other), each default-policy
\* leaf that is present in other equals other's, and each that is absent in
\* other is what it was.
C2_Original ==
  last.op = "merge" =>
    \A sel \in DefaultSels(T) :
      IF IsSome(At(T, Other, sel))
      THEN At(T, partial, sel) = At(T, Other, sel)
      ELSE At(T, partial, sel) = At(T, Self, sel)

\* C2, amended: a default-policy leaf absent in other is what it was, after
\* every merge; one present in other equals other's when merge returns Ok, and
\* when merge returns an error at some field it equals other's if it is
\* declared before that field and is what it was if it is declared after it.
C2_Merge ==
  last.op = "merge" =>
    \A sel \in DefaultSels(T) :
      IF IsNone(At(T, Other, sel)) THEN At(T, partial, sel) = At(T, Self, sel)
      ELSE IF last.res.tag = "Ok" THEN At(T, partial, sel) = At(T, Other, sel)
      ELSE IF PosOfSel(sel) < PosOf(last.res.err.field)
      THEN At(T, partial, sel) = At(T, Other, sel)
      ELSE At(T, partial, sel) = At(T, Self, sel)

\* A merge that returned Ok replaced the value of a default-policy leaf.
C2_Witness ==
  /\ last.op = "merge"
  /\ last.res.tag = "Ok"
  /\ \E sel \in DefaultSels(T) :
       /\ IsSome(At(T, Other, sel))
       /\ IsSome(At(T, Self, sel))
       /\ At(T, Self, sel) # At(T, Other, sel)
       /\ At(T, partial, sel) = At(T, Other, sel)

\* ------------------------------------------------------------ C3
\* C3: after a merge, every leaf of a nested mirror that is absent in other is
\* what it was, whatever other sets in the same or in a sibling nested mirror;
\* an optional nested field whose mirror is absent in other is unchanged, and
\* one that was absent adopts the mirror other holds.
C3_NestedFrame ==
  last.op = "merge" =>
    /\ \A sel \in NestedSels(T) :
         IsNone(At(T, Other, sel)) => At(T, partial, sel) = At(T, Self, sel)
    /\ \A i \in FieldIdx(T) :
         Fields(T)[i].nested /\ Fields(T)[i].is_option =>
           /\ IsNone(Other[Fields(T)[i].ident]) =>
                partial[Fields(T)[i].ident] = Self[Fields(T)[i].ident]
           /\ IsNone(Self[Fields(T)[i].ident]) /\ IsSome(Other[Fields(T)[i].ident]) =>
                partial[Fields(T)[i].ident] = Other[Fields(T)[i].ident]

\* A merge set one leaf of a nested mirror to a new value while another leaf of
\* the same nested mirror, absent in other, was already accumulated.
C3_Witness ==
  /\ last.op = "merge"
  /\ \E kept \in NestedSels(T), set \in NestedSels(T) :
       /\ kept # set
       /\ kept[1] = set[1]
       /\ IsSome(At(T, Self, kept))
       /\ IsNone(At(T, Other, kept))
       /\ IsSome(At(T, Other, set))
       /\ At(T, Self, set) # At(T, Other, set)
       /\ At(T, partial, set) = At(T, Other, set)

\* ------------------------------------------------------------ C4
\* The finished struct c holds what the mirror m holds: the value of each
\* required leaf, the value or None of each optional leaf, and None for an
\* optional nested field whose mirror is None or empty.
RECURSIVE Agrees(_, _, _)
FieldAgrees(f, v, c) ==
  IF f.nested
  THEN (IF f.is_option
        THEN (IF IsNone(v) \/ IsEmpty(f.shape, Unwrap(v)) THEN c = None
              ELSE IsSome(c) /\ Agrees(f.shape, Unwrap(v), Unwrap(c)))
        ELSE Agrees(f.shape, v, c))
  ELSE IF f.is_option THEN c = (IF IsSome(v) THEN Unwrap(v) ELSE None)
  ELSE IsSome(v) /\ c = Unwrap(v)

Agrees(s, m, c) ==
  \A i \in FieldIdx(s) : FieldAgrees(Fields(s)[i], m[Fields(s)[i].ident], c[Fields(s)[i].ident])

\* C4: finish fails with a FromPartialError exactly when list_missing_properties
\* of the accumulated mirror is not empty, and the error carries that list;
\* otherwise it returns the struct whose required leaves are the mirror's
\* values and whose optional leaves are absent where the mirror's are.
C4_Finish ==
  last.op = "finish" =>
    IF Len(ListMissing(T, partial)) # 0
    THEN /\ last.res.tag = "Err"
         /\ last.res.kind = "FromPartial"
         /\ last.res.err.missing_properties = ListMissing(T, partial)
    ELSE /\ last.res.tag = "Ok"
         /\ Agrees(T, partial, last.res.value)

\* finish succeeded on a mirror with an optional leaf that is absent.
C4_Witness ==
  /\ last.op = "finish"
  /\ last.res.tag = "Ok"
  /\ \E sel \in Sels[T] : ~Required(T, sel) /\ IsNone(At(T, partial, sel)) /\ ~Dormant(T, partial, sel)

\* ------------------------------------------------------------ C5
\* C5: every path list_missing_properties reports, for every mirror the loader
\* reaches, is the path of a required leaf: never that of an optional leaf,
\* never that of a nested field.
C5_OnlyRequiredLeaves ==
  \A k \in 1..Len(ListMissing(T, partial)) :
    /\ ListMissing(T, partial)[k] \in RequiredPaths(T)
    /\ ListMissing(T, partial)[k] \notin OptionalPaths(T)
    /\ ListMissing(T, partial)[k] \notin NestedPaths(T)

\* Something is reported while an optional leaf inside a nested mirror is absent.
C5_Witness ==
  /\ Len(ListMissing(T, partial)) # 0
  /\ \E sel \in NestedSels(T) :
       ~Required(T, sel) /\ IsNone(At(T, partial, sel)) /\ ~Dormant(T, partial, sel)

\* ------------------------------------------------------------ C6
\* C6, as stated: list_missing_properties is exactly the required leaves that
\* are absent, each once, in declaration order, under their dotted paths.
C6_Original ==
  ListMissing(T, partial)
    = PathsWhere(T, LeafSelSeq(T),
                 {sel \in Sels[T] : Required(T, sel) /\ IsNone(At(T, partial, sel))})

\* C6, amended: list_missing_properties is exactly the required leaves that are
\* absent and do not lie beneath an optional nested field whose mirror is None
\* or empty, each once, in declaration order, under their dotted paths.
C6_Missing ==
  ListMissing(T, partial)
    = PathsWhere(T, LeafSelSeq(T),
                 {sel \in Sels[T] : /\ Required(T, sel)
                                    /\ IsNone(At(T, partial, sel))
                                    /\ ~Dormant(T, partial, sel)})

\* A required leaf of a nested mirror and a later required leaf of the root are
\* both reported, the nested one first and with its prefix.
C6_Witness ==
  /\ T = "Opt"
  /\ ListMissing(T, partial) = << "nested.port", "id" >>

\* ------------------------------------------------------------ C7
\* C7: the mirror of a new loader is empty and none of its leaves is present,
\* also when fields of the struct declare defaults.
C7_NewIsEmpty ==
  last.op = "new" =>
    /\ IsEmpty(T, partial)
    /\ \A sel \in Sels[T] : IsNone(At(T, partial, sel))

\* A new loader for a struct that declares a default.
C7_Witness ==
  /\ last.op = "new"
  /\ ~IsEmpty(T, Defaults(T))
  /\ IsEmpty(T, partial)

\* ------------------------------------------------------------ C8
\* A field of s, at any nesting depth, declares a default.
RECURSIVE DeclaresDefault(_)
DeclaresDefault(s) ==
  \E i \in FieldIdx(s) :
    IsSome(Fields(s)[i].default)
    \/ (Fields(s)[i].nested /\ DeclaresDefault(Fields(s)[i].shape))

\* C8: is_empty(defaults()) is true exactly for the structs none of whose
\* fields, at any depth and also inside optional nested fields, declares a
\* default.
C8_DefaultsEmpty ==
  \A s \in DOMAIN Shapes \cup {T} : IsEmpty(s, Defaults(s)) <=> ~DeclaresDefault(s)

\* defaults() was added for a struct whose only default lies inside an
\* optional nested field.
C8_Witness ==
  /\ T = "OptDef"
  /\ last.op = "defaults"
  /\ ~IsEmpty(T, partial)

\* ------------------------------------------------------------ C9
\* C9: a step in which an add fails before merging, with a document that does
\* not deserialize or an environment that does not bind, leaves partial as it was.
C9_FailBeforeMerge ==
  [][(last'.res.tag = "Err" /\ last'.res.kind \in {"Json", "FromEnv"}) => partial' = partial]_vars

\* An add failed on the environment after values were accumulated.
C9_Witness ==
  /\ last.op = "env"
  /\ last.res.tag = "Err"
  /\ last.res.kind = "FromEnv"
  /\ ~IsEmpty(T, partial)

\* ------------------------------------------------------------ C10
\* C10, as stated: a step in which an add fails during the merge leaves partial
\* as it was.
C10_FailDuringMerge ==
  [][(last'.res.tag = "Err" /\ last'.res.kind = "Merge") => partial' = partial]_vars

\* ------------------------------------------------------------ C11
\* The leaves with a fallible merge function whose call fails in merge(Self,
\* Other): both sides hold a value and the values differ.
Conflicts ==
  {sel \in LeafSels(T) :
     /\ SelField(T, sel).merge = "merge_same"
     /\ IsSome(At(T, Self, sel))
     /\ IsSome(At(T, Other, sel))
     /\ At(T, Self, sel) # At(T, Other, sel)}

\* C11: merge fails exactly when the merge function of some field fails, and
\* the MergeError then carries the function's message and, as field, the dotted
\* path from the root struct to the first failing field: its own name at the
\* root, with the name of every enclosing nested field prepended.
C11_MergeErrorPath ==
  last.op = "merge" =>
    /\ (last.res.tag = "Err") = (Conflicts # {})
    /\ last.res.tag = "Err" =>
         /\ last.res.kind = "Merge"
         /\ last.res.err.message = "conflict"
         /\ \E sel \in Conflicts :
              /\ last.res.err.field = PathOf(T, sel)
              /\ \A o \in Conflicts : PosOfSel(sel) <= PosOfSel(o)

\* A merge failed two nesting levels below the root.
C11_Witness ==
  /\ last.op = "merge"
  /\ last.res.tag = "Err"
  /\ last.res.err.field = "outer.inner.once"
  /\ last.res.err.message = "conflict"

\* ------------------------------------------------------------ C12
\* The leaves merged by merge::append_vec.
AppendSels(s) == {sel \in LeafSels(s) : SelField(s, sel).merge = "append_vec"}

\* C12, as stated: after any sequence of adds, every append_vec list is the
\* concatenation, in source order, of the lists of the added sources in which
\* it is present, and is absent if it is present in none.
C12_Concatenation ==
  \A sel \in AppendSels(T) : At(T, partial, sel) = joined[sel]

\* ------------------------------------------------------------ from_env
\* The call of _env under test (EnvSpec), the prefix it passes, and what
\* from_env returns for it.
Call == Unwrap(arg)

FromEnvResult == FromEnv(T, Call.env, Call.prefix)

\* The key from_env derives for a leaf: the prefix handed down from struct to
\* nested struct along the selector.
RECURSIVE KeyOfSel(_, _, _)
KeyOfSel(s, prefix, sel) ==
  LET f   == Fields(s)[sel[1]]
      key == get_field_env_key(
               f, get_container_env_prefix(s, IF IsSome(prefix) THEN Unwrap(prefix) ELSE <<>>))
  IN  IF Len(sel) = 1 THEN key
      ELSE KeyOfSel(f.shape, Some(nested_prefix(key)), Tail(sel))

KeyOf(sel) == KeyOfSel(T, Call.prefix, sel)

\* Some field on the way to the leaf, or the leaf, is excluded from the
\* environment (from_env_field of it is None).
RECURSIVE Excluded(_, _)
Excluded(s, sel) ==
  \/ skip_env(s, Fields(s)[sel[1]])
  \/ Len(sel) > 1 /\ Excluded(Fields(s)[sel[1]].shape, Tail(sel))

\* The field's parse_env function returns Ok(None) for the variable's value.
NoValue(f, e) == f.parse_env = "blank_is_none" /\ e.utf8 /\ e.text = <<>>

\* The variable's value does not parse as the leaf's type, or is not UTF-8.
BadEntry(f, e) == ~e.utf8 \/ (u16_from_str(e.text).tag = "Err" /\ ~NoValue(f, e))

\* What a leaf holds in the mirror when it is read from key.
ReadAs(f, env, key) ==
  IF key \notin DOMAIN env THEN None
  ELSE IF NoValue(f, env[key]) THEN (IF f.is_option THEN Some(None) ELSE None)
  ELSE IF f.is_option THEN Some(Some(u16_from_str(env[key].text).value))
  ELSE Some(u16_from_str(env[key].text).value)

\* The leaf is read from key: a value that does not parse makes from_env fail,
\* and a mirror that is produced holds at the leaf what the key holds.
ReadsFrom(sel, key) ==
  /\ (key \in DOMAIN Call.env /\ BadEntry(SelField(T, sel), Call.env[key])) =>
       FromEnvResult.tag = "Err"
  /\ FromEnvResult.tag = "Ok" =>
       At(T, FromEnvResult.value, sel) = ReadAs(SelField(T, sel), Call.env, key)

\* ------------------------------------------------------------ C13
\* C13: from_env fails only about a key the provider holds; in the mirror it
\* produces every leaf whose key the provider does not hold is absent; and with
\* a provider that holds none of the struct's keys it returns the empty mirror.
C13_AbsentKey ==
  last.op = "env" =>
    /\ FromEnvResult.tag = "Err" => FromEnvResult.err.key \in DOMAIN Call.env
    /\ FromEnvResult.tag = "Ok" =>
         \A sel \in LeafSels(T) :
           KeyOf(sel) \notin DOMAIN Call.env => IsNone(At(T, FromEnvResult.value, sel))
    /\ (\A sel \in LeafSels(T) : KeyOf(sel) \notin DOMAIN Call.env) =>
         /\ FromEnvResult.tag = "Ok"
         /\ IsEmpty(T, FromEnvResult.value)
         /\ partial = Self

\* from_env produced a mirror in which one leaf is read and another, whose key
\* the provider does not hold, is absent.
C13_Witness ==
  /\ last.op = "env"
  /\ FromEnvResult.tag = "Ok"
  /\ \E a, b \in LeafSels(T) :
       /\ KeyOf(a) \notin DOMAIN Call.env
       /\ IsNone(At(T, FromEnvResult.value, a))
       /\ IsSome(At(T, FromEnvResult.value, b))

\* ------------------------------------------------------------ keys, as specified
\* The prefix passed to from_env, empty if none.
Passed == IF IsSome(Call.prefix) THEN Unwrap(Call.prefix) ELSE <<>>

\* The effective prefix of a struct bound with prefix p: its env_prefix with
\* the placeholder replaced by p, the env_prefix alone if it has no
\* placeholder, p itself if it declares none.
EffectivePrefix(s, p) ==
  IF IsNone(Shapes[s].attrs.env_prefix) THEN p
  ELSE IF fmt_has_prefix(Unwrap(Shapes[s].attrs.env_prefix))
  THEN Format(Unwrap(Shapes[s].attrs.env_prefix), p)
  ELSE Unwrap(Shapes[s].attrs.env_prefix)

\* The key of a field of a struct bound with prefix p: an explicit key verbatim,
\* or with its placeholder replaced by the effective prefix; without one, the
\* effective prefix directly followed by the SCREAMING_SNAKE_CASE name.
SpecifiedKey(s, p, f) ==
  IF IsSome(f.env)
  THEN (IF fmt_has_prefix(Unwrap(f.env))
        THEN Format(Unwrap(f.env), EffectivePrefix(s, p))
        ELSE Unwrap(f.env))
  ELSE EffectivePrefix(s, p) \o to_screaming_snake_case(FieldName(f))

\* The prefix a nested field binds its struct with: its key and "_", the
\* underscore only after a key that is not empty and does not end in one.
SpecifiedNestedPrefix(key) ==
  IF key = <<>> THEN key
  ELSE IF key[Len(key)] = "_" THEN key
  ELSE key \o <<"_">>

\* The key of the leaf at sel, through nested fields that are not flattened.
RECURSIVE SpecifiedKeyOfSel(_, _, _)
SpecifiedKeyOfSel(s, p, sel) ==
  IF Len(sel) = 1 THEN SpecifiedKey(s, p, Fields(s)[sel[1]])
  ELSE SpecifiedKeyOfSel(Fields(s)[sel[1]].shape,
                         SpecifiedNestedPrefix(SpecifiedKey(s, p, Fields(s)[sel[1]])),
                         Tail(sel))

\* Some nested field on the way to the leaf is flattened.
RECURSIVE ThroughFlatten(_, _)
ThroughFlatten(s, sel) ==
  Len(sel) > 1 /\ (Fields(s)[sel[1]].flatten \/ ThroughFlatten(Fields(s)[sel[1]].shape, Tail(sel)))

\* ------------------------------------------------------------ C14
\* C14: a leaf with an explicit env key is read from that key verbatim when the
\* key has no placeholder, whatever the prefix passed and the struct's
\* env_prefix, and from the key with the placeholder replaced by the struct's
\* effective prefix when it has one.
C14_ExplicitKey ==
  last.op = "env" =>
    \A i \in FieldIdx(T) :
      (~Fields(T)[i].nested /\ IsSome(Fields(T)[i].env)) =>
        ReadsFrom(<<i>>,
                  IF fmt_has_prefix(Unwrap(Fields(T)[i].env))
                  THEN Format(Unwrap(Fields(T)[i].env), EffectivePrefix(T, Passed))
                  ELSE Unwrap(Fields(T)[i].env))

\* Under prefix APP_ and env_prefix "{}CONF_", the field with env = "PORT" was
\* read from PORT.
C14_Witness ==
  /\ last.op = "env"
  /\ T = "Keyed"
  /\ Call.prefix = Some(<<"APP", "_">>)
  /\ <<"PORT">> \in DOMAIN Call.env
  /\ FromEnvResult.tag = "Ok"
  /\ IsSome(FromEnvResult.value.port)

\* ------------------------------------------------------------ C15
\* C15: a leaf without an explicit env key is read from the struct's effective
\* prefix directly followed by the SCREAMING_SNAKE_CASE of its rename, or of
\* its declared name if it has none; the effective prefix is the env_prefix
\* with the placeholder replaced by the prefix passed to from_env, the
\* env_prefix alone if it has no placeholder, and the passed prefix if the
\* struct declares no env_prefix.
C15_DerivedKey ==
  last.op = "env" =>
    \A i \in FieldIdx(T) :
      (~Fields(T)[i].nested /\ IsNone(Fields(T)[i].env) /\ ~skip_env(T, Fields(T)[i])) =>
        ReadsFrom(<<i>>,
                  EffectivePrefix(T, Passed) \o to_screaming_snake_case(FieldName(Fields(T)[i])))

\* Under prefix APP_, the port of the struct with env_prefix "FIXED_" was read
\* from FIXED_PORT.
C15_Witness ==
  /\ last.op = "env"
  /\ T = "Fixed"
  /\ Call.prefix = Some(<<"APP", "_">>)
  /\ <<"FIXED", "_", "PORT">> \in DOMAIN Call.env
  /\ FromEnvResult.tag = "Ok"
  /\ IsSome(FromEnvResult.value.port)

\* ------------------------------------------------------------ C16
\* C16: a nested field that is not flattened binds its struct with its key
\* followed by "_", the underscore only after a key that is not empty and does
\* not end in one; so at every depth a leaf of the nested struct is read from
\* the effective prefix, the nested fields' names each followed by "_", and
\* the leaf's name.
C16_NestedKey ==
  last.op = "env" =>
    \A sel \in LeafSels(T) :
      (Len(sel) > 1 /\ ~ThroughFlatten(T, sel) /\ ~Excluded(T, sel)) =>
        ReadsFrom(sel, SpecifiedKeyOfSel(T, Passed, sel))

\* Under prefix APP_ and env_prefix "{}CONF_", the renamed leaf of the nested
\* field was read from APP_CONF_NESTED_PORT.
C16_Witness ==
  /\ last.op = "env"
  /\ T = "Prefixed"
  /\ Call.prefix = Some(<<"APP", "_">>)
  /\ <<"APP", "_", "CONF", "_", "NESTED", "_", "PORT">> \in DOMAIN Call.env
  /\ FromEnvResult.tag = "Ok"
  /\ IsSome(FromEnvResult.value.nested.port_renamed)

\* ------------------------------------------------------------ C17
\* C17, as stated: for every prefix passed to from_env, the leaves of a
\* flattened nested struct are read with the same prefix as the leaves of the
\* enclosing struct.
C17_FlattenSamePrefix ==
  last.op = "env" =>
    \A sel \in LeafSels(T) :
      (Len(sel) = 2 /\ Fields(T)[sel[1]].flatten) =>
        ReadsFrom(sel, SpecifiedKey(Fields(T)[sel[1]].shape,
                                    EffectivePrefix(T, Passed),
                                    SelField(T, sel)))

\* ------------------------------------------------------------ C18
\* C18: a leaf declared skip_env is absent from the mirror from_env produces,
\* whatever the provider holds, also at the key the leaf would be read from, at
\* any depth and under any prefix; adding the environment leaves the leaf in
\* the accumulated state as it was.
C18_SkipEnvLeaf ==
  last.op = "env" =>
    \A sel \in LeafSels(T) :
      SelField(T, sel).skip_env =>
        /\ FromEnvResult.tag = "Ok" => IsNone(At(T, FromEnvResult.value, sel))
        /\ At(T, partial, sel) = At(T, Self, sel)

\* Under prefix APP_ the provider held a number at the key of a skip_env leaf
\* of a nested struct, and the value accumulated for the leaf stayed.
C18_Witness ==
  /\ last.op = "env"
  /\ last.res.tag = "Ok"
  /\ Call.prefix = Some(<<"APP", "_">>)
  /\ \E sel \in LeafSels(T) :
       /\ Len(sel) = 2
       /\ SelField(T, sel).skip_env
       /\ KeyOf(sel) \in DOMAIN Call.env
       /\ ~BadEntry(SelField(T, sel), Call.env[KeyOf(sel)])
       /\ IsSome(At(T, Self, sel))
       /\ At(T, partial, sel) = At(T, Self, sel)

\* ------------------------------------------------------------ C19
\* C19, as stated: for a struct declared skip_env, from_env produces a mirror
\* in which every field is absent, whatever the provider holds and whatever
\* the fields declare, an explicit env key included.
C19_SkipEnvStruct ==
  (last.op = "env" /\ Shapes[T].attrs.skip_env) =>
    /\ FromEnvResult.tag = "Ok"
    /\ \A i \in FieldIdx(T) : IsNone(FromEnvResult.value[Fields(T)[i].ident])

\* ------------------------------------------------------------ C20
\* The leaves from_env reads whose key holds a value that does not parse or is
\* not UTF-8.
BadSels ==
  {sel \in LeafSels(T) :
     /\ ~Excluded(T, sel)
     /\ KeyOf(sel) \in DOMAIN Call.env
     /\ BadEntry(SelField(T, sel), Call.env[KeyOf(sel)])}

\* C20: from_env fails exactly when the key of some leaf it reads holds a value
\* that does not parse or that the provider cannot return; the FromEnvError
\* carries the key that was queried and the dotted path of the first such leaf,
\* the name of every enclosing nested field prepended; _env returns it and
\* merges nothing.
C20_EnvErrorPath ==
  last.op = "env" =>
    /\ (FromEnvResult.tag = "Err") = (BadSels # {})
    /\ FromEnvResult.tag = "Err" =>
         /\ last.res = AddErr("FromEnv", FromEnvResult.err)
         /\ partial = Self
         /\ \E sel \in BadSels :
              /\ FromEnvResult.err.key = KeyOf(sel)
              /\ FromEnvResult.err.field = PathOf(T, sel)
              /\ \A o \in BadSels : PosOfSel(sel) <= PosOfSel(o)

\* from_env failed at a leaf two nesting levels below the root, under prefix APP_.
C20_Witness ==
  /\ last.op = "env"
  /\ last.res.tag = "Err"
  /\ last.res.err.field = "outer.inner.k"
  /\ last.res.err.key = <<"APP", "_", "OUTER", "_", "INNER", "_", "K">>

\* ------------------------------------------------------------ C21
\* The positions of the optional nested fields of struct s.
OptionalNested(s) == {i \in FieldIdx(s) : Fields(s)[i].nested /\ Fields(s)[i].is_option}

\* The paths beneath nested field f of the leaves of its struct in sels.
Beneath(f, sels) == {FieldName(f) \o "." \o PathOf(f.shape, sel) : sel \in sels}

\* The elements of a sequence.
Range(seq) == {seq[k] : k \in 1..Len(seq)}

\* The required leaves of struct s that are absent in mirror m.
AbsentRequired(s, m) == {sel \in LeafSels(s) : Required(s, sel) /\ IsNone(At(s, m, sel))}

\* C21: for an optional nested field, while its mirror is None or empty,
\* list_missing_properties reports no path beneath it and a finish that
\* succeeds yields None for it; once the mirror is not empty, exactly the
\* absent required leaves of the nested struct are reported beneath it, with
\* the field's name as prefix, finish fails while there are any, and a finish
\* that succeeds yields Some of the nested struct with the mirror's values.
C21_OptionalNested ==
  \A i \in OptionalNested(T) :
    LET f == Fields(T)[i]
        v == partial[f.ident]
    IN  IF IsNone(v) \/ IsEmpty(f.shape, Unwrap(v))
        THEN /\ Range(ListMissing(T, partial)) \cap Beneath(f, LeafSels(f.shape)) = {}
             /\ last.op = "finish" =>
                  /\ last.res.tag \in {"Ok", "Err"}
                  /\ Len(ListMissing(T, partial)) = 0 => last.res.tag = "Ok"
                  /\ last.res.tag = "Ok" => last.res.value[f.ident] = None
        ELSE /\ Range(ListMissing(T, partial)) \cap Beneath(f, LeafSels(f.shape))
                  = Beneath(f, AbsentRequired(f.shape, Unwrap(v)))
             /\ last.op = "finish" =>
                  /\ last.res.tag \in {"Ok", "Err"}
                  /\ AbsentRequired(f.shape, Unwrap(v)) # {} => last.res.tag = "Err"
                  /\ last.res.tag = "Ok" =>
                       /\ IsSome(last.res.value[f.ident])
                       /\ Agrees(f.shape, Unwrap(v), Unwrap(last.res.value[f.ident]))

\* finish succeeded with one optional nested field Some, its required leaf
\* supplied, and another whose mirror is Some but empty finished as None.
C21_Witness ==
  /\ last.op = "finish"
  /\ last.res.tag = "Ok"
  /\ \E i, j \in OptionalNested(T) :
       /\ IsSome(last.res.value[Fields(T)[i].ident])
       /\ IsSome(partial[Fields(T)[j].ident])
       /\ last.res.value[Fields(T)[j].ident] = None

\* ------------------------------------------------------------ C22
\* C22, as stated: the mirror that results from merging any mirror into the
\* empty mirror (the empty mirror and defaults() among them), serialized and
\* deserialized again, is the same mirror, also when an optional leaf is
\* present with no value or an optional nested mirror is present but empty.
C22_RoundTrip ==
  (last.op = "merge" /\ last.res.tag = "Ok" /\ Self = Default(T)) =>
    from_str(T, to_string(T, partial)) = DeOk(partial)

\* ------------------------------------------------------------ C23
\* The object holds a key that is no field of the struct, at its top level or
\* in the object of a nested field.
RECURSIVE HasUnknownField(_, _)
HasUnknownField(s, o) ==
  \/ ~(DOMAIN o \subseteq FieldNames(s))
  \/ \E i \in FieldIdx(s) :
       /\ Fields(s)[i].nested
       /\ FieldName(Fields(s)[i]) \in DOMAIN o
       /\ o[FieldName(Fields(s)[i])].kind = "object"
       /\ HasUnknownField(Fields(s)[i].shape, o[FieldName(Fields(s)[i])].members)

\* The document without the keys that are no field of struct s.
KnownFields(s, j) ==
  JObject([k \in DOMAIN j.members \cap FieldNames(s) |-> j.members[k]])

\* C23: _code on a document with a key unknown to the struct returns a Json
\* error and leaves the accumulated mirror as it was; when the struct has
\* allow_unknown_fields the call does what it does on the document without the
\* unknown keys: its known fields are deserialized and merged.
C23_UnknownField ==
  (last.op = "code" /\ Call.code.kind = "object" /\ HasUnknownField(T, Call.code.members)) =>
    IF ~Shapes[T].attrs.allow_unknown_fields
    THEN last.res.tag = "Err" /\ last.res.kind = "Json" /\ partial = Self
    ELSE LET r == from_str(T, KnownFields(T, Call.code))
         IN  IF r.tag = "Err"
             THEN last.res.tag = "Err" /\ last.res.kind = "Json" /\ partial = Self
             ELSE /\ partial = Merge(T, Self, r.value).val
                  /\ last.res.tag = "Ok"
                  /\ \A sel \in LeafSels(T) :
                       IsSome(At(T, r.value, sel)) => At(T, partial, sel) = At(T, r.value, sel)

\* A struct with allow_unknown_fields took a document with an unknown key and
\* a known one, and the known field replaced the accumulated value.
C23_Witness ==
  /\ last.op = "code"
  /\ Shapes[T].attrs.allow_unknown_fields
  /\ Call.code.kind = "object"
  /\ {"unknown", "port"} \subseteq DOMAIN Call.code.members
  /\ last.res.tag = "Ok"
  /\ IsSome(Self.port)
  /\ partial.port # Self.port
  /\ partial.port = Some(Call.code.members["port"].num)

\* ------------------------------------------------------------ C24
\* C24: when from_partial succeeds on two mirrors that differ in a required
\* leaf, at any nesting depth, the two structs it returns differ.
C24_Injective ==
  (/\ last.op = "from_partial"
   /\ last.res.self.tag = "Ok"
   /\ last.res.other.tag = "Ok"
   /\ \E sel \in LeafSels(T) : Required(T, sel) /\ At(T, Self, sel) # At(T, Other, sel))
    => last.res.self.value # last.res.other.value

\* from_partial succeeded on two mirrors that differ only in a required leaf
\* of a nested struct.
C24_Witness ==
  /\ last.op = "from_partial"
  /\ last.res.self.tag = "Ok"
  /\ last.res.other.tag = "Ok"
  /\ \E sel \in LeafSels(T) :
       /\ Len(sel) > 1
       /\ Required(T, sel)
       /\ At(T, Self, sel) # At(T, Other, sel)
       /\ \A x \in LeafSels(T) \ {sel} : At(T, Self, x) = At(T, Other, x)

\* ------------------------------------------------------------ C25
\* C25: finish on any accumulated mirror returns without a panic: it returns
\* the error exactly when list_missing_properties is not empty, and when it
\* returns the struct every required leaf that from_partial unwraps (one not
\* beneath an optional nested mirror that is None or empty) is present.
C25_NoPanic ==
  last.op = "finish" =>
    /\ last.res.tag \in {"Ok", "Err"}
    /\ last.res.tag = "Err" <=> ListMissing(T, partial) # <<>>
    /\ last.res.tag = "Ok" =>
         \A sel \in LeafSels(T) :
           (Required(T, sel) /\ ~Dormant(T, partial, sel)) => IsSome(At(T, partial, sel))

\* finish returned the error on a mirror whose optional nested mirror is
\* partially filled: not empty, with a required leaf absent.
C25_Witness ==
  /\ last.op = "finish"
  /\ last.res.tag = "Err"
  /\ \E i \in OptionalNested(T) :
       LET f == Fields(T)[i]
           v == partial[f.ident]
       IN  /\ IsSome(v)
           /\ ~IsEmpty(f.shape, Unwrap(v))
           /\ AbsentRequired(f.shape, Unwrap(v)) # {}
           /\ \A j \in FieldIdx(T) \ {i} : FieldMissing(Fields(T)[j], partial[Fields(T)[j].ident]) = <<>>

\* ------------------------------------------------------------ C26
\* The leaves that declare a default, and the default of one.
DeclaringSels(s) == {sel \in LeafSels(s) : IsSome(SelField(s, sel).default)}

DeclaredDefault(s, sel) == Some(Unwrap(SelField(s, sel).default))

\* C26, as stated: after defaults() returns, every leaf that declares a
\* default holds that default, whatever an earlier source had set, and every
\* leaf without a declared default is what it was.
C26_Original ==
  [][last'.op = "defaults" =>
       /\ last'.res.tag = "Ok"
       /\ \A sel \in LeafSels(T) :
            IF sel \in DeclaringSels(T)
            THEN At(T, partial', sel) = DeclaredDefault(T, sel)
            ELSE At(T, partial', sel) = At(T, partial, sel)]_vars

\* C26, amended: defaults() is merged like any source.  After it returns,
\* every leaf with the replace policy that declares a default holds that
\* default, whatever an earlier source had set; an append_vec list that
\* declares a default holds the list it held with the default appended; every
\* leaf without a declared default is what it was.  A source added after
\* defaults() that sets a replace-policy leaf overrides the default.  finish
\* on the mirror of new, defaults, for a struct whose required leaves all
\* declare defaults, returns the struct of the defaults.
C26_Defaults ==
  /\ []((/\ last.op = "finish"
         /\ partial = Defaults(T)
         /\ \A sel \in LeafSels(T) : Required(T, sel) => sel \in DeclaringSels(T))
          => /\ last.res.tag = "Ok"
             /\ \A sel \in LeafSels(T) : Required(T, sel) => At(T, partial, sel) = DeclaredDefault(T, sel)
             /\ Agrees(T, Defaults(T), last.res.value))
  /\ [][/\ last'.op = "defaults" =>
            /\ last'.res.tag = "Ok"
            /\ \A sel \in LeafSels(T) :
                 IF sel \notin DeclaringSels(T) THEN At(T, partial', sel) = At(T, partial, sel)
                 ELSE IF sel \in DefaultSels(T) THEN At(T, partial', sel) = DeclaredDefault(T, sel)
                 ELSE sel \in AppendSels(T) =>
                        At(T, partial', sel) =
                          (IF IsSome(At(T, partial, sel))
                           THEN Some(Unwrap(At(T, partial, sel)) \o Unwrap(DeclaredDefault(T, sel)))
                           ELSE DeclaredDefault(T, sel))
        /\ (last.op = "defaults" /\ last'.op \in {"partial", "code", "env"} /\ last'.res.tag = "Ok") =>
            \A sel \in DefaultSels(T) :
              lastSeen'[sel] # lastSeen[sel] => At(T, partial', sel) = lastSeen'[sel]]_vars

\* defaults() was added after a source that had set the list: the list holds
\* the source's element and then the default's, and id and nested.port hold
\* their defaults.
C26_Witness ==
  /\ T = "Presets"
  /\ last.op = "defaults"
  /\ partial.list = Some(<<2, 1>>)
  /\ partial.id = Some(2)
  /\ partial.nested.port = Some(1)

\* ------------------------------------------------------------ C27
\* C27: in the mirror from_env produces, a leaf that is an Option and whose
\* key holds a value that parses is present, also when its parse_env function
\* returns Ok(None): the leaf then holds Some(None), and _env puts that in the
\* place of what was accumulated and the accumulated mirror is not empty.  A
\* leaf that is no Option whose parse_env function returns Ok(None) is absent
\* in the mirror, and _env leaves it as it was.
C27_OptionalParsed ==
  (last.op = "env" /\ FromEnvResult.tag = "Ok") =>
    \A sel \in LeafSels(T) :
      LET f == SelField(T, sel)
          m == FromEnvResult.value
      IN  (~Excluded(T, sel) /\ KeyOf(sel) \in DOMAIN Call.env) =>
            /\ f.is_option => IsSome(At(T, m, sel))
            /\ (f.is_option /\ NoValue(f, Call.env[KeyOf(sel)])) =>
                 /\ At(T, m, sel) = Some(None)
                 /\ last.res.tag = "Ok"
                 /\ At(T, partial, sel) = Some(None)
                 /\ ~IsEmpty(T, partial)
            /\ (~f.is_option /\ NoValue(f, Call.env[KeyOf(sel)])) =>
                 /\ IsNone(At(T, m, sel))
                 /\ At(T, partial, sel) = At(T, Self, sel)

\* The parse_env function of a leaf that is an Option returned Ok(None) for
\* the empty string, and the number an earlier source had set gave way to
\* Some(None).
C27_Witness ==
  /\ last.op = "env"
  /\ last.res.tag = "Ok"
  /\ \E sel \in LeafSels(T) :
       /\ SelField(T, sel).is_option
       /\ KeyOf(sel) \in DOMAIN Call.env
       /\ NoValue(SelField(T, sel), Call.env[KeyOf(sel)])
       /\ IsSome(At(T, Self, sel))
       /\ IsSome(Unwrap(At(T, Self, sel)))
       /\ At(T, partial, sel) = Some(None)

\* ------------------------------------------------------------ C28
\* C28, as stated: merging a mirror that is empty (is_empty holds for it)
\* returns Ok and leaves the mirror merged into as it was, also where it holds
\* append_vec lists and optional nested mirrors.
C28_EmptyNoOp ==
  (last.op = "merge" /\ IsEmpty(T, Other)) => (last.res.tag = "Ok" /\ partial = Self)

\* ------------------------------------------------------------ C29
\* No nested field of struct s, at any depth, is an Option.
RECURSIVE NestedAllRequired(_)
NestedAllRequired(s) ==
  \A i \in FieldIdx(s) :
    Fields(s)[i].nested => (~Fields(s)[i].is_option /\ NestedAllRequired(Fields(s)[i].shape))

\* C29: in every add that returns Ok, each leaf merged by replacement or by
\* append_vec, at any depth, that was present is present afterwards, a mirror
\* that was not empty is not empty afterwards, and for a struct none of whose
\* nested fields is an Option every path list_missing_properties reports
\* afterwards was reported before.
C29_Monotonic ==
  [][(last'.op \in {"partial", "defaults", "code", "env"} /\ last'.res.tag = "Ok") =>
       /\ \A sel \in DefaultSels(T) \cup AppendSels(T) :
            IsSome(At(T, partial, sel)) => IsSome(At(T, partial', sel))
       /\ ~IsEmpty(T, partial) => ~IsEmpty(T, partial')
       /\ NestedAllRequired(T) =>
            Range(ListMissing(T, partial')) \subseteq Range(ListMissing(T, partial))]_vars

\* The environment was added after a source that had set a leaf the
\* environment never binds, and the leaf is still present.
C29_Witness ==
  /\ last.op = "env"
  /\ last.res.tag = "Ok"
  /\ \E sel \in LeafSels(T) : SelField(T, sel).skip_env /\ IsSome(At(T, partial, sel))

\* ------------------------------------------------------------ C30
\* The leaf, a nested field on the way to it, or one of their structs is
\* declared skip_env.
RECURSIVE SpecifiedExcluded(_, _)
SpecifiedExcluded(s, sel) ==
  \/ Shapes[s].attrs.skip_env
  \/ Fields(s)[sel[1]].skip_env
  \/ Len(sel) > 1 /\ SpecifiedExcluded(Fields(s)[sel[1]].shape, Tail(sel))

\* The key of the leaf at sel as specified: a flattened nested field binds its
\* struct with the effective prefix of the enclosing struct, any other with
\* its key and "_".
RECURSIVE SpecifiedKeyThrough(_, _, _)
SpecifiedKeyThrough(s, p, sel) ==
  LET f == Fields(s)[sel[1]]
  IN  IF Len(sel) = 1 THEN SpecifiedKey(s, p, f)
      ELSE IF f.flatten THEN SpecifiedKeyThrough(f.shape, EffectivePrefix(s, p), Tail(sel))
      ELSE SpecifiedKeyThrough(f.shape, SpecifiedNestedPrefix(SpecifiedKey(s, p, f)), Tail(sel))

\* The keys derived from the struct and the prefix passed, of the leaves not
\* excluded from the environment.
DerivedKeys ==
  {SpecifiedKeyThrough(T, Passed, sel) : sel \in {x \in LeafSels(T) : ~SpecifiedExcluded(T, x)}}

\* C30, as stated: from_env returns for the provider what it returns for the
\* provider cut down to the derived keys of the leaves that are not excluded,
\* so two providers that agree on those keys get the same mirror or the same
\* error, whatever else they hold.
C30_OnlyDerivedKeys ==
  last.op = "env" =>
    FromEnvResult =
      FromEnv(T, [k \in DOMAIN Call.env \cap DerivedKeys |-> Call.env[k]], Call.prefix)

====
